---- MODULE Spec2Model ----
(***************************************************************************)
(* A model of dictlib (src/dictlib/__init__.py): dotted-path access        *)
(* (dig, dig_get, dug), the three deep merges (union, union_setadd,        *)
(* union_copy) and the attribute-view wrapper Dict with its projections.   *)
(*                                                                         *)
(* Python objects live in a heap: heap[i] is the object at address i, a    *)
(* dict, a Dict (the wrapper) or a list.  A value ("cell") is a scalar or  *)
(* a reference to a heap object, so that two names for one container are   *)
(* two equal references, as in Python.  A dict keeps its items in          *)
(* insertion order, as Python's does.  A string is the sequence of its     *)
(* characters, so that split, the index pattern and key sanitising are     *)
(* computed character by character.  A raised exception is a value of      *)
(* kind "err" carrying the exception's class.                              *)
(***************************************************************************)
EXTENDS Integers, Sequences, FiniteSets, TLC

VARIABLES heap, old, a, b, c, args, ret, pc

\* heap: the objects; old: the heap before the last operation;
\* a, b, c: the operands (values); args: the other inputs of the run;
\* ret: what the last operation returned or raised; pc: the last operation.
vars == <<heap, old, a, b, c, args, ret, pc>>

----------------------------------------------------------------------------
(* Values *)

IntV(n) == [k |-> "int", v |-> n]
StrV(s) == [k |-> "str", v |-> s]
BoolV(x) == [k |-> "bool", v |-> x]
None == [k |-> "none", v |-> 0]
Ref(i) == [k |-> "ref", v |-> i]
Err(e) == [k |-> "err", v |-> e]

IsErr(x) == x.k = "err"

\* The class of the object a cell denotes.
Kind(h, x) == IF x.k = "ref" THEN h[x.v].k ELSE x.k

\* isinstance(x, dict): Dict is a subclass of dict.
IsDict(h, x) == Kind(h, x) \in {"dict", "Dict"}

\* isinstance(x, Dict)
IsObj(h, x) == Kind(h, x) = "Dict"

IsList(h, x) == Kind(h, x) = "list"

\* The items of a dict or the elements of a list.
Body(h, x) == h[x.v].v

\* A new object at the next free address.
New(h, kind, body) == [heap |-> Append(h, [k |-> kind, v |-> body]), ret |-> Ref(Len(h) + 1)]

\* Python truth value: None, 0, False, '', {} and [] are false.
Truthy(h, x) ==
    CASE x.k = "none" -> FALSE
      [] x.k = "int" -> x.v # 0
      [] x.k = "bool" -> x.v
      [] x.k = "str" -> x.v # <<>>
      [] x.k = "ref" -> Body(h, x) # <<>>
      [] OTHER -> TRUE

----------------------------------------------------------------------------
(* dict items, in insertion order *)

\* The value == and hash() see in a scalar: a bool is the int 1 or 0.
Num(x) == IF x.k = "bool" THEN [k |-> "int", v |-> IF x.v THEN 1 ELSE 0] ELSE x

\* x == y for a key x (a string, an integer or a bool) and a scalar y
KeyEq(x, y) == Num(x) = Num(y)

ItemIndex(items, key) ==
    IF \E i \in 1..Len(items) : KeyEq(key, items[i].key)
    THEN CHOOSE i \in 1..Len(items) : KeyEq(key, items[i].key)
    ELSE 0

HasKey(items, key) == ItemIndex(items, key) # 0

ItemGet(items, key) == items[ItemIndex(items, key)].val

\* d[key] = val: an existing key keeps its place, a new key goes last.
ItemPut(items, key, val) ==
    IF HasKey(items, key)
    THEN [items EXCEPT ![ItemIndex(items, key)].val = val]
    ELSE Append(items, [key |-> key, val |-> val])

\* del d[key]
ItemDel(items, key) ==
    LET i == ItemIndex(items, key)
    IN  SubSeq(items, 1, i - 1) \o SubSeq(items, i + 1, Len(items))

----------------------------------------------------------------------------
(* Strings *)

\* s in t, for two strings: s occurs in t
IsSubstr(s, t) ==
    \E i \in 0..(Len(t) - Len(s)) : SubSeq(t, i + 1, i + Len(s)) = s


Digits == <<"0", "1", "2", "3", "4", "5", "6", "7", "8", "9">>

\* The other decimal digits \d matches and int() reads (Unicode category
\* Nd), a row of ten per script, from its zero to its nine.  A character
\* outside ASCII is written by its code point.
UnicodeDigits ==
    <<
       <<"U+0660", "U+0661", "U+0662", "U+0663", "U+0664",
         "U+0665", "U+0666", "U+0667", "U+0668", "U+0669">>,
       <<"U+06F0", "U+06F1", "U+06F2", "U+06F3", "U+06F4",
         "U+06F5", "U+06F6", "U+06F7", "U+06F8", "U+06F9">>,
       <<"U+07C0", "U+07C1", "U+07C2", "U+07C3", "U+07C4",
         "U+07C5", "U+07C6", "U+07C7", "U+07C8", "U+07C9">>,
       <<"U+0966", "U+0967", "U+0968", "U+0969", "U+096A",
         "U+096B", "U+096C", "U+096D", "U+096E", "U+096F">>,
       <<"U+09E6", "U+09E7", "U+09E8", "U+09E9", "U+09EA",
         "U+09EB", "U+09EC", "U+09ED", "U+09EE", "U+09EF">>,
       <<"U+0A66", "U+0A67", "U+0A68", "U+0A69", "U+0A6A",
         "U+0A6B", "U+0A6C", "U+0A6D", "U+0A6E", "U+0A6F">>,
       <<"U+0AE6", "U+0AE7", "U+0AE8", "U+0AE9", "U+0AEA",
         "U+0AEB", "U+0AEC", "U+0AED", "U+0AEE", "U+0AEF">>,
       <<"U+0B66", "U+0B67", "U+0B68", "U+0B69", "U+0B6A",
         "U+0B6B", "U+0B6C", "U+0B6D", "U+0B6E", "U+0B6F">>,
       <<"U+0BE6", "U+0BE7", "U+0BE8", "U+0BE9", "U+0BEA",
         "U+0BEB", "U+0BEC", "U+0BED", "U+0BEE", "U+0BEF">>,
       <<"U+0C66", "U+0C67", "U+0C68", "U+0C69", "U+0C6A",
         "U+0C6B", "U+0C6C", "U+0C6D", "U+0C6E", "U+0C6F">>,
       <<"U+0CE6", "U+0CE7", "U+0CE8", "U+0CE9", "U+0CEA",
         "U+0CEB", "U+0CEC", "U+0CED", "U+0CEE", "U+0CEF">>,
       <<"U+0D66", "U+0D67", "U+0D68", "U+0D69", "U+0D6A",
         "U+0D6B", "U+0D6C", "U+0D6D", "U+0D6E", "U+0D6F">>,
       <<"U+0DE6", "U+0DE7", "U+0DE8", "U+0DE9", "U+0DEA",
         "U+0DEB", "U+0DEC", "U+0DED", "U+0DEE", "U+0DEF">>,
       <<"U+0E50", "U+0E51", "U+0E52", "U+0E53", "U+0E54",
         "U+0E55", "U+0E56", "U+0E57", "U+0E58", "U+0E59">>,
       <<"U+0ED0", "U+0ED1", "U+0ED2", "U+0ED3", "U+0ED4",
         "U+0ED5", "U+0ED6", "U+0ED7", "U+0ED8", "U+0ED9">>,
       <<"U+0F20", "U+0F21", "U+0F22", "U+0F23", "U+0F24",
         "U+0F25", "U+0F26", "U+0F27", "U+0F28", "U+0F29">>,
       <<"U+1040", "U+1041", "U+1042", "U+1043", "U+1044",
         "U+1045", "U+1046", "U+1047", "U+1048", "U+1049">>,
       <<"U+1090", "U+1091", "U+1092", "U+1093", "U+1094",
         "U+1095", "U+1096", "U+1097", "U+1098", "U+1099">>,
       <<"U+17E0", "U+17E1", "U+17E2", "U+17E3", "U+17E4",
         "U+17E5", "U+17E6", "U+17E7", "U+17E8", "U+17E9">>,
       <<"U+1810", "U+1811", "U+1812", "U+1813", "U+1814",
         "U+1815", "U+1816", "U+1817", "U+1818", "U+1819">>,
       <<"U+1946", "U+1947", "U+1948", "U+1949", "U+194A",
         "U+194B", "U+194C", "U+194D", "U+194E", "U+194F">>,
       <<"U+19D0", "U+19D1", "U+19D2", "U+19D3", "U+19D4",
         "U+19D5", "U+19D6", "U+19D7", "U+19D8", "U+19D9">>,
       <<"U+1A80", "U+1A81", "U+1A82", "U+1A83", "U+1A84",
         "U+1A85", "U+1A86", "U+1A87", "U+1A88", "U+1A89">>,
       <<"U+1A90", "U+1A91", "U+1A92", "U+1A93", "U+1A94",
         "U+1A95", "U+1A96", "U+1A97", "U+1A98", "U+1A99">>,
       <<"U+1B50", "U+1B51", "U+1B52", "U+1B53", "U+1B54",
         "U+1B55", "U+1B56", "U+1B57", "U+1B58", "U+1B59">>,
       <<"U+1BB0", "U+1BB1", "U+1BB2", "U+1BB3", "U+1BB4",
         "U+1BB5", "U+1BB6", "U+1BB7", "U+1BB8", "U+1BB9">>,
       <<"U+1C40", "U+1C41", "U+1C42", "U+1C43", "U+1C44",
         "U+1C45", "U+1C46", "U+1C47", "U+1C48", "U+1C49">>,
       <<"U+1C50", "U+1C51", "U+1C52", "U+1C53", "U+1C54",
         "U+1C55", "U+1C56", "U+1C57", "U+1C58", "U+1C59">>,
       <<"U+A620", "U+A621", "U+A622", "U+A623", "U+A624",
         "U+A625", "U+A626", "U+A627", "U+A628", "U+A629">>,
       <<"U+A8D0", "U+A8D1", "U+A8D2", "U+A8D3", "U+A8D4",
         "U+A8D5", "U+A8D6", "U+A8D7", "U+A8D8", "U+A8D9">>,
       <<"U+A900", "U+A901", "U+A902", "U+A903", "U+A904",
         "U+A905", "U+A906", "U+A907", "U+A908", "U+A909">>,
       <<"U+A9D0", "U+A9D1", "U+A9D2", "U+A9D3", "U+A9D4",
         "U+A9D5", "U+A9D6", "U+A9D7", "U+A9D8", "U+A9D9">>,
       <<"U+A9F0", "U+A9F1", "U+A9F2", "U+A9F3", "U+A9F4",
         "U+A9F5", "U+A9F6", "U+A9F7", "U+A9F8", "U+A9F9">>,
       <<"U+AA50", "U+AA51", "U+AA52", "U+AA53", "U+AA54",
         "U+AA55", "U+AA56", "U+AA57", "U+AA58", "U+AA59">>,
       <<"U+ABF0", "U+ABF1", "U+ABF2", "U+ABF3", "U+ABF4",
         "U+ABF5", "U+ABF6", "U+ABF7", "U+ABF8", "U+ABF9">>,
       <<"U+FF10", "U+FF11", "U+FF12", "U+FF13", "U+FF14",
         "U+FF15", "U+FF16", "U+FF17", "U+FF18", "U+FF19">>,
       <<"U+104A0", "U+104A1", "U+104A2", "U+104A3", "U+104A4",
         "U+104A5", "U+104A6", "U+104A7", "U+104A8", "U+104A9">>,
       <<"U+10D30", "U+10D31", "U+10D32", "U+10D33", "U+10D34",
         "U+10D35", "U+10D36", "U+10D37", "U+10D38", "U+10D39">>,
       <<"U+11066", "U+11067", "U+11068", "U+11069", "U+1106A",
         "U+1106B", "U+1106C", "U+1106D", "U+1106E", "U+1106F">>,
       <<"U+110F0", "U+110F1", "U+110F2", "U+110F3", "U+110F4",
         "U+110F5", "U+110F6", "U+110F7", "U+110F8", "U+110F9">>,
       <<"U+11136", "U+11137", "U+11138", "U+11139", "U+1113A",
         "U+1113B", "U+1113C", "U+1113D", "U+1113E", "U+1113F">>,
       <<"U+111D0", "U+111D1", "U+111D2", "U+111D3", "U+111D4",
         "U+111D5", "U+111D6", "U+111D7", "U+111D8", "U+111D9">>,
       <<"U+112F0", "U+112F1", "U+112F2", "U+112F3", "U+112F4",
         "U+112F5", "U+112F6", "U+112F7", "U+112F8", "U+112F9">>,
       <<"U+11450", "U+11451", "U+11452", "U+11453", "U+11454",
         "U+11455", "U+11456", "U+11457", "U+11458", "U+11459">>,
       <<"U+114D0", "U+114D1", "U+114D2", "U+114D3", "U+114D4",
         "U+114D5", "U+114D6", "U+114D7", "U+114D8", "U+114D9">>,
       <<"U+11650", "U+11651", "U+11652", "U+11653", "U+11654",
         "U+11655", "U+11656", "U+11657", "U+11658", "U+11659">>,
       <<"U+116C0", "U+116C1", "U+116C2", "U+116C3", "U+116C4",
         "U+116C5", "U+116C6", "U+116C7", "U+116C8", "U+116C9">>,
       <<"U+11730", "U+11731", "U+11732", "U+11733", "U+11734",
         "U+11735", "U+11736", "U+11737", "U+11738", "U+11739">>,
       <<"U+118E0", "U+118E1", "U+118E2", "U+118E3", "U+118E4",
         "U+118E5", "U+118E6", "U+118E7", "U+118E8", "U+118E9">>,
       <<"U+11950", "U+11951", "U+11952", "U+11953", "U+11954",
         "U+11955", "U+11956", "U+11957", "U+11958", "U+11959">>,
       <<"U+11C50", "U+11C51", "U+11C52", "U+11C53", "U+11C54",
         "U+11C55", "U+11C56", "U+11C57", "U+11C58", "U+11C59">>,
       <<"U+11D50", "U+11D51", "U+11D52", "U+11D53", "U+11D54",
         "U+11D55", "U+11D56", "U+11D57", "U+11D58", "U+11D59">>,
       <<"U+11DA0", "U+11DA1", "U+11DA2", "U+11DA3", "U+11DA4",
         "U+11DA5", "U+11DA6", "U+11DA7", "U+11DA8", "U+11DA9">>,
       <<"U+16A60", "U+16A61", "U+16A62", "U+16A63", "U+16A64",
         "U+16A65", "U+16A66", "U+16A67", "U+16A68", "U+16A69">>,
       <<"U+16AC0", "U+16AC1", "U+16AC2", "U+16AC3", "U+16AC4",
         "U+16AC5", "U+16AC6", "U+16AC7", "U+16AC8", "U+16AC9">>,
       <<"U+16B50", "U+16B51", "U+16B52", "U+16B53", "U+16B54",
         "U+16B55", "U+16B56", "U+16B57", "U+16B58", "U+16B59">>,
       <<"U+1D7CE", "U+1D7CF", "U+1D7D0", "U+1D7D1", "U+1D7D2",
         "U+1D7D3", "U+1D7D4", "U+1D7D5", "U+1D7D6", "U+1D7D7">>,
       <<"U+1D7D8", "U+1D7D9", "U+1D7DA", "U+1D7DB", "U+1D7DC",
         "U+1D7DD", "U+1D7DE", "U+1D7DF", "U+1D7E0", "U+1D7E1">>,
       <<"U+1D7E2", "U+1D7E3", "U+1D7E4", "U+1D7E5", "U+1D7E6",
         "U+1D7E7", "U+1D7E8", "U+1D7E9", "U+1D7EA", "U+1D7EB">>,
       <<"U+1D7EC", "U+1D7ED", "U+1D7EE", "U+1D7EF", "U+1D7F0",
         "U+1D7F1", "U+1D7F2", "U+1D7F3", "U+1D7F4", "U+1D7F5">>,
       <<"U+1D7F6", "U+1D7F7", "U+1D7F8", "U+1D7F9", "U+1D7FA",
         "U+1D7FB", "U+1D7FC", "U+1D7FD", "U+1D7FE", "U+1D7FF">>,
       <<"U+1E140", "U+1E141", "U+1E142", "U+1E143", "U+1E144",
         "U+1E145", "U+1E146", "U+1E147", "U+1E148", "U+1E149">>,
       <<"U+1E2F0", "U+1E2F1", "U+1E2F2", "U+1E2F3", "U+1E2F4",
         "U+1E2F5", "U+1E2F6", "U+1E2F7", "U+1E2F8", "U+1E2F9">>,
       <<"U+1E950", "U+1E951", "U+1E952", "U+1E953", "U+1E954",
         "U+1E955", "U+1E956", "U+1E957", "U+1E958", "U+1E959">>,
       <<"U+1FBF0", "U+1FBF1", "U+1FBF2", "U+1FBF3", "U+1FBF4",
         "U+1FBF5", "U+1FBF6", "U+1FBF7", "U+1FBF8", "U+1FBF9">>
    >>

DigitRows == {Digits} \cup {UnicodeDigits[r] : r \in 1..Len(UnicodeDigits)}

\* \d
IsDigit(ch) == \E row \in DigitRows : \E i \in 1..10 : row[i] = ch

DigitValue(ch) == (CHOOSE i \in 1..10 : \E row \in DigitRows : row[i] = ch) - 1

\* int(s) for a string of decimal digits
RECURSIVE ParseInt(_)
ParseInt(s) ==
    IF s = <<>> THEN 0
    ELSE 10 * ParseInt(SubSeq(s, 1, Len(s) - 1)) + DigitValue(s[Len(s)])

\* str.split(sep) for a one-character separator: the pieces between the
\* separators, empty pieces kept ('a..b' gives 'a', '', 'b'; '' gives '').
RECURSIVE Split(_, _)
Split(s, sep) ==
    IF \E i \in 1..Len(s) : s[i] = sep
    THEN LET i == CHOOSE j \in 1..Len(s) : s[j] = sep /\ \A m \in 1..(j - 1) : s[m] # sep
         IN  <<SubSeq(s, 1, i - 1)>> \o Split(SubSeq(s, i + 1, Len(s)), sep)
    ELSE <<s>>

\* RX_INDEX = (.*)\[(\d+)\]$ under search().  '$' matches at the end of s
\* and before a newline that ends s: the position of the ']' that closes
\* the final [digits] group, were there one.
RxIndexClose(s) == IF s # <<>> /\ s[Len(s)] = "\n" THEN Len(s) - 1 ELSE Len(s)

\* The position of the '[' that opens the final [digits] group of s, or 0
\* when s does not end in such a group.
RxIndexOpen(s) ==
    LET n == RxIndexClose(s)
    IN  IF n >= 3 /\ s[n] = "]" /\ IsDigit(s[n - 1])
        THEN LET j == CHOOSE m \in 0..(n - 2) :
                        /\ \A d \in (m + 1)..(n - 1) : IsDigit(s[d])
                        /\ (m = 0 \/ ~IsDigit(s[m]))
             IN  IF j >= 1 /\ s[j] = "[" THEN j ELSE 0
        ELSE 0

\* Where group 1 begins: '.' matches no newline, so the match starts after
\* the last newline before the '['.
RxIndexStart(s) ==
    LET j == RxIndexOpen(s)
        nl == {m \in 1..(j - 1) : s[m] = "\n"}
    IN  IF nl = {} THEN 1 ELSE 1 + CHOOSE m \in nl : \A q \in nl : q <= m

----------------------------------------------------------------------------
(* Python's subscript, membership and item assignment *)

\* The content of a value, with references followed: what == compares and
\* what json.dumps prints.  A mapping is the function from its keys to the
\* content of their values (== ignores the order of a dict's items).
RECURSIVE Content(_, _)
Content(h, x) ==
    IF x.k # "ref" THEN x
    ELSE IF h[x.v].k = "list"
    THEN [k |-> "list", v |-> [i \in 1..Len(h[x.v].v) |-> Content(h, h[x.v].v[i])]]
    ELSE [k |-> "map",
          v |-> [key \in {h[x.v].v[i].key : i \in 1..Len(h[x.v].v)} |->
                   Content(h, ItemGet(h[x.v].v, key))]]

\* The content as == compares it: a bool counts as the int 1 or 0, as a
\* value and as a key.
RECURSIVE Value(_, _)
Value(h, x) ==
    IF x.k # "ref" THEN Num(x)
    ELSE IF h[x.v].k = "list"
    THEN [k |-> "list", v |-> [i \in 1..Len(h[x.v].v) |-> Value(h, h[x.v].v[i])]]
    ELSE [k |-> "map",
          v |-> [key \in {Num(h[x.v].v[i].key) : i \in 1..Len(h[x.v].v)} |->
                   Value(h, ItemGet(h[x.v].v, key))]]

\* x == y
PyEq(h, x, y) == Value(h, x) = Value(h, y)

\* The place, from 1, that the index i names in a sequence of n elements:
\* a negative index counts from the end.  0 when i is out of range.
Position(n, i) ==
    IF 0 <= i /\ i < n THEN i + 1
    ELSE IF i < 0 /\ 0 - i <= n THEN n + i + 1
    ELSE 0

\* obj[key]
GetItem(h, obj, key) ==
    CASE IsDict(h, obj) ->
           IF HasKey(Body(h, obj), key) THEN ItemGet(Body(h, obj), key) ELSE Err("KeyError")
      [] IsList(h, obj) ->
           IF Num(key).k # "int" THEN Err("TypeError")
           ELSE IF Position(Len(Body(h, obj)), Num(key).v) # 0
           THEN Body(h, obj)[Position(Len(Body(h, obj)), Num(key).v)]
           ELSE Err("IndexError")
      [] obj.k = "str" ->
           IF Num(key).k # "int" THEN Err("TypeError")
           ELSE IF Position(Len(obj.v), Num(key).v) # 0
           THEN StrV(<<obj.v[Position(Len(obj.v), Num(key).v)]>>)
           ELSE Err("IndexError")
      [] OTHER -> Err("TypeError")

\* key in obj
Contains(h, obj, key) ==
    CASE IsDict(h, obj) -> BoolV(HasKey(Body(h, obj), key))
      [] IsList(h, obj) ->
           BoolV(\E i \in 1..Len(Body(h, obj)) : PyEq(h, key, Body(h, obj)[i]))
      [] obj.k = "str" ->
           IF key.k = "str" THEN BoolV(IsSubstr(key.v, obj.v)) ELSE Err("TypeError")
      [] OTHER -> Err("TypeError")

\* obj[key] = val: the heap after it, and None or the exception raised
SetItem(h, obj, key, val) ==
    CASE IsDict(h, obj) ->
           [heap |-> [h EXCEPT ![obj.v].v = ItemPut(@, key, val)], ret |-> None]
      [] IsList(h, obj) ->
           IF Num(key).k # "int" THEN [heap |-> h, ret |-> Err("TypeError")]
           ELSE IF Position(Len(Body(h, obj)), Num(key).v) # 0
           THEN [heap |-> [h EXCEPT ![obj.v].v[Position(Len(Body(h, obj)), Num(key).v)] = val],
                 ret |-> None]
           ELSE [heap |-> h, ret |-> Err("IndexError")]
      [] OTHER -> [heap |-> h, ret |-> Err("TypeError")]

----------------------------------------------------------------------------
(* Path resolver *)

\* _splice_index(*key): a first element 'name[digits]' becomes name, int(digits)
_splice_index(key) ==
    IF key[1].k = "str" /\ RxIndexOpen(key[1].v) # 0
    THEN LET s == key[1].v
             j == RxIndexOpen(s)
         IN  <<StrV(SubSeq(s, RxIndexStart(s), j - 1)),
               IntV(ParseInt(SubSeq(s, j + 1, RxIndexClose(s) - 1)))>>
             \o Tail(key)
    ELSE key

\* key.split("."), as the tuple of strings handed to _dig, _dig_get and _dug
SplitPath(path) == LET parts == Split(path, ".") IN [i \in 1..Len(parts) |-> StrV(parts[i])]

RECURSIVE _dig(_, _, _)
_dig(h, obj, key0) ==
    LET key == _splice_index(key0)
        elem == GetItem(h, obj, key[1])
    IN  IF Len(key) = 1 THEN elem
        ELSE IF IsErr(elem) THEN elem
        ELSE _dig(h, elem, Tail(key))

dig(h, obj, path) == _dig(h, obj, SplitPath(path))

_dig_get_elem(h, obj, key, default) ==
    LET r == GetItem(h, obj, key)
    IN  IF IsErr(r) /\ r.v \in {"IndexError", "KeyError"} THEN default ELSE r

RECURSIVE _dig_get(_, _, _, _)
_dig_get(h, obj, default, key0) ==
    LET key == _splice_index(key0)
        elem == _dig_get_elem(h, obj, key[1], default)
    IN  IF ~Truthy(h, obj) THEN default
        ELSE IF Len(key) = 1 THEN elem
        ELSE IF IsErr(elem) THEN elem
        ELSE _dig_get(h, elem, default, Tail(key))

dig_get(h, obj, path, default) ==
    LET r == _dig_get(h, obj, default, SplitPath(path))
    IN  IF IsErr(r) /\ r.v \in {"KeyError", "AttributeError"} THEN default ELSE r

RECURSIVE _dug(_, _, _, _)
\* _dug without its call of _splice_index: 'name[digits]' is used as a plain key.
DugNoSplice(h, obj, value, key0) ==
    IF Len(key0) = 1
    THEN LET s == SetItem(h, obj, key0[1], value)
         IN  IF IsErr(s.ret) THEN s ELSE [heap |-> s.heap, ret |-> BoolV(TRUE)]
    ELSE LET in == Contains(h, obj, key0[1])
         IN  IF IsErr(in) THEN [heap |-> h, ret |-> in]
             ELSE LET n == New(h, "dict", <<>>)
                      s == IF in.v THEN [heap |-> h, ret |-> None]
                           ELSE SetItem(n.heap, obj, key0[1], n.ret)
                      next == GetItem(s.heap, obj, key0[1])
                  IN  IF IsErr(s.ret) THEN [heap |-> h, ret |-> s.ret]
                      ELSE IF IsErr(next) THEN [heap |-> s.heap, ret |-> next]
                      ELSE _dug(s.heap, next, value, Tail(key0))

_dug(h, obj, value, key0) ==
    LET key == _splice_index(key0)
    IN  IF Len(key) = 1
        THEN LET s == SetItem(h, obj, key[1], value)
             IN  IF IsErr(s.ret) THEN s ELSE [heap |-> s.heap, ret |-> BoolV(TRUE)]
        ELSE LET in == Contains(h, obj, key[1])
             IN  IF IsErr(in) THEN [heap |-> h, ret |-> in]
                 ELSE LET n == New(h, "dict", <<>>)
                          s == IF in.v THEN [heap |-> h, ret |-> None]
                               ELSE SetItem(n.heap, obj, key[1], n.ret)
                          next == GetItem(s.heap, obj, key[1])
                      IN  IF IsErr(s.ret) THEN [heap |-> h, ret |-> s.ret]
                          ELSE IF IsErr(next) THEN [heap |-> s.heap, ret |-> next]
                          ELSE _dug(s.heap, next, value, Tail(key))

dug(h, obj, path, value) == _dug(h, obj, value, SplitPath(path))


----------------------------------------------------------------------------
(* Attribute-view wrapper *)

\* The reserved prefix \f$\f of the reverse-mapping entries.
Prefix == <<"\f", "$", "\f">>

\* key[:3] == '\f$\f'
HasPrefix(s) == Len(s) >= 3 /\ SubSeq(s, 1, 3) = Prefix

\* The characters of [a-zA-Z0-9_].
WordChars ==
    { "a", "b", "c", "d", "e", "f", "g", "h", "i", "j", "k", "l", "m", "n",
      "o", "p", "q", "r", "s", "t", "u", "v", "w", "x", "y", "z", "A", "B",
      "C", "D", "E", "F", "G", "H", "I", "J", "K", "L", "M", "N", "O", "P",
      "Q", "R", "S", "T", "U", "V", "W", "X", "Y", "Z", "0", "1", "2", "3",
      "4", "5", "6", "7", "8", "9", "_" }

\* re.sub(r'[^a-zA-Z0-9_]', '_', key)
Sanitize(s) == [i \in 1..Len(s) |-> IF s[i] \in WordChars THEN s[i] ELSE "_"]

\* Dict.__reserved__: dir(dict) and the names added to it.
Reserved ==
    { <<"_", "_", "c", "l", "a", "s", "s", "_", "_">>,
      <<"_", "_", "c", "l", "a", "s", "s", "_", "g", "e", "t", "i", "t", "e", "m", "_", "_">>,
      <<"_", "_", "c", "o", "n", "t", "a", "i", "n", "s", "_", "_">>,
      <<"_", "_", "d", "e", "l", "a", "t", "t", "r", "_", "_">>,
      <<"_", "_", "d", "e", "l", "i", "t", "e", "m", "_", "_">>,
      <<"_", "_", "d", "i", "r", "_", "_">>,
      <<"_", "_", "d", "o", "c", "_", "_">>,
      <<"_", "_", "e", "q", "_", "_">>,
      <<"_", "_", "e", "x", "p", "o", "r", "t", "_", "_">>,
      <<"_", "_", "f", "o", "r", "m", "a", "t", "_", "_">>,
      <<"_", "_", "g", "e", "_", "_">>,
      <<"_", "_", "g", "e", "t", "a", "t", "t", "r", "i", "b", "u", "t", "e", "_", "_">>,
      <<"_", "_", "g", "e", "t", "i", "t", "e", "m", "_", "_">>,
      <<"_", "_", "g", "e", "t", "s", "t", "a", "t", "e", "_", "_">>,
      <<"_", "_", "g", "t", "_", "_">>,
      <<"_", "_", "h", "a", "s", "h", "_", "_">>,
      <<"_", "_", "i", "n", "i", "t", "_", "_">>,
      <<"_", "_", "i", "n", "i", "t", "_", "s", "u", "b", "c", "l", "a", "s", "s", "_", "_">>,
      <<"_", "_", "i", "o", "r", "_", "_">>,
      <<"_", "_", "i", "t", "e", "r", "_", "_">>,
      <<"_", "_", "l", "e", "_", "_">>,
      <<"_", "_", "l", "e", "n", "_", "_">>,
      <<"_", "_", "l", "t", "_", "_">>,
      <<"_", "_", "n", "e", "_", "_">>,
      <<"_", "_", "n", "e", "w", "_", "_">>,
      <<"_", "_", "o", "r", "_", "_">>,
      <<"_", "_", "r", "e", "d", "u", "c", "e", "_", "_">>,
      <<"_", "_", "r", "e", "d", "u", "c", "e", "_", "e", "x", "_", "_">>,
      <<"_", "_", "r", "e", "p", "r", "_", "_">>,
      <<"_", "_", "r", "e", "s", "e", "r", "v", "e", "d", "_", "_">>,
      <<"_", "_", "r", "e", "v", "e", "r", "s", "e", "d", "_", "_">>,
      <<"_", "_", "r", "o", "r", "_", "_">>,
      <<"_", "_", "s", "e", "t", "a", "t", "t", "r", "_", "_">>,
      <<"_", "_", "s", "e", "t", "i", "t", "e", "m", "_", "_">>,
      <<"_", "_", "s", "i", "z", "e", "o", "f", "_", "_">>,
      <<"_", "_", "s", "t", "r", "_", "_">>,
      <<"_", "_", "s", "u", "b", "c", "l", "a", "s", "s", "h", "o", "o", "k", "_", "_">>,
      <<"c", "l", "e", "a", "r">>,
      <<"c", "o", "p", "y">>,
      <<"d", "i", "c", "t">>,
      <<"f", "r", "o", "m", "k", "e", "y", "s">>,
      <<"g", "e", "t">>,
      <<"i", "t", "e", "m", "s">>,
      <<"k", "e", "y", "s">>,
      <<"p", "o", "p">>,
      <<"p", "o", "p", "i", "t", "e", "m">>,
      <<"s", "e", "t", "d", "e", "f", "a", "u", "l", "t">>,
      <<"u", "n", "i", "o", "n">>,
      <<"u", "p", "d", "a", "t", "e">>,
      <<"v", "a", "l", "u", "e", "s">> }

\* Dict.__init__: the loop over attrs, from the i-th key on.
RECURSIVE ObjKw(_, _), DictInitLoop(_, _, _, _)
DictInitLoop(h, self, attrs, i) ==
    IF i > Len(Body(h, attrs)) THEN [heap |-> h, ret |-> self]
    ELSE LET key == Body(h, attrs)[i].key
             value == Body(h, attrs)[i].val
         IN  IF key.k # "str" THEN [heap |-> h, ret |-> Err("TypeError")]
             ELSE IF HasPrefix(key.v) THEN [heap |-> h, ret |-> Err("ValueError")]
             ELSE IF Sanitize(key.v) \in Reserved THEN [heap |-> h, ret |-> Err("ValueError")]
             ELSE LET newkey == StrV(Sanitize(key.v))
                      w == IF IsDict(h, value) THEN ObjKw(h, value)
                           ELSE [heap |-> h, ret |-> value]
                      h1 == SetItem(w.heap, self, newkey, w.ret).heap
                      h2 == SetItem(h1, self, StrV(Prefix \o newkey.v), key).heap
                      h3 == SetItem(h2, self, key, w.ret).heap
                  IN  IF IsErr(w.ret) THEN w
                      ELSE DictInitLoop(IF newkey # key THEN h3 ELSE h1, self, attrs, i + 1)

\* Obj(**value): the keys of value are the keyword arguments of
\* __init__(self, *args, **attrs).  A keyword must be a string, and the
\* keyword self collides with the first parameter.
ObjKw(h, value) ==
    IF \E i \in 1..Len(Body(h, value)) : Body(h, value)[i].key.k # "str"
    THEN [heap |-> h, ret |-> Err("TypeError")]
    ELSE IF HasKey(Body(h, value), StrV(<<"s", "e", "l", "f">>))
    THEN [heap |-> h, ret |-> Err("TypeError")]
    ELSE LET n == New(h, "Dict", <<>>) IN DictInitLoop(n.heap, n.ret, value, 1)

\* Dict(attrs), one positional argument: a mapping, or else ValueError
DictInit(h, attrs) ==
    IF ~IsDict(h, attrs) THEN [heap |-> h, ret |-> Err("ValueError")]
    ELSE LET n == New(h, "Dict", <<>>) IN DictInitLoop(n.heap, n.ret, attrs, 1)

\* The second loop of __original__: every sanitised key recorded in rewrite
\* gives its value to the original key and is deleted.
RECURSIVE OriginalRewrite(_, _, _)
OriginalRewrite(rewrite, exported, i) ==
    IF i > Len(rewrite) THEN [items |-> exported, ret |-> None]
    ELSE LET key == rewrite[i].key
             to == rewrite[i].val
         IN  IF ~HasKey(exported, key) THEN [items |-> exported, ret |-> Err("KeyError")]
             ELSE IF to.k = "ref" THEN [items |-> exported, ret |-> Err("TypeError")]
             ELSE OriginalRewrite(rewrite,
                                  ItemDel(ItemPut(exported, to, ItemGet(exported, key)), key),
                                  i + 1)

\* Dict.__original__: a new plain dict.  The first loop sorts the entries
\* of self into rewrite (the reverse-mapping entries) and exported.
RECURSIVE __original__(_, _), OriginalLoop(_, _, _, _, _)
OriginalLoop(h, self, i, rewrite, exported) ==
    IF i > Len(Body(h, self))
    THEN LET e == OriginalRewrite(rewrite, exported, 1)
         IN  IF IsErr(e.ret) THEN [heap |-> h, ret |-> e.ret] ELSE New(h, "dict", e.items)
    ELSE LET key == Body(h, self)[i].key
             value == Body(h, self)[i].val
         IN  IF key.k # "str" THEN [heap |-> h, ret |-> Err("TypeError")]
             ELSE IF HasPrefix(key.v)
             THEN OriginalLoop(h, self, i + 1,
                               ItemPut(rewrite, StrV(SubSeq(key.v, 4, Len(key.v))), value),
                               exported)
             ELSE LET w == IF IsObj(h, value) THEN __original__(h, value)
                           ELSE [heap |-> h, ret |-> value]
                  IN  IF IsErr(w.ret) THEN w
                      ELSE OriginalLoop(w.heap, self, i + 1, rewrite,
                                        ItemPut(exported, key, w.ret))

__original__(h, self) == OriginalLoop(h, self, 1, <<>>, <<>>)

\* original(dict1), the module's function: the loop over dict1.items()
RECURSIVE original(_, _), OriginalWalk(_, _, _)
OriginalWalk(h, dict1, i) ==
    IF i > Len(Body(h, dict1)) THEN [heap |-> h, ret |-> dict1]
    ELSE LET key == Body(h, dict1)[i].key
             value == Body(h, dict1)[i].val
             w == IF IsObj(h, value) THEN __original__(h, value)
                  ELSE IF IsDict(h, value) THEN original(h, value)
                  ELSE [heap |-> h, ret |-> value]
         IN  IF IsErr(w.ret) THEN w
             ELSE OriginalWalk(IF IsDict(h, value) THEN SetItem(w.heap, dict1, key, w.ret).heap
                               ELSE h,
                               dict1, i + 1)

original(h, dict1) ==
    IF IsObj(h, dict1)
    THEN LET o == __original__(h, dict1)
         IN  IF IsErr(o.ret) THEN o ELSE OriginalWalk(o.heap, o.ret, 1)
    ELSE IF IsDict(h, dict1) THEN OriginalWalk(h, dict1, 1)
    ELSE [heap |-> h, ret |-> Err("AttributeError")]

\* Obj(**o), for the result o of __original__
ObjFrom(o) == IF IsErr(o.ret) THEN o ELSE ObjKw(o.heap, o.ret)

\* Dict.copy
copy(h, self) == ObjFrom(__original__(h, self))

\* Dict.__export__: a new plain dict of the entries that are no
\* reverse-mapping entries, sanitised and original keys alike.
RECURSIVE __export__(_, _), ExportLoop(_, _, _, _), ExportRest(_, _, _, _, _)
ExportLoop(h, self, i, exported) ==
    IF i > Len(Body(h, self)) THEN New(h, "dict", exported)
    ELSE LET key == Body(h, self)[i].key
             value == Body(h, self)[i].val
         IN  IF key.k # "str" THEN [heap |-> h, ret |-> Err("TypeError")]
             ELSE IF HasPrefix(key.v) THEN ExportLoop(h, self, i + 1, exported)
             ELSE ExportRest(IF IsObj(h, value) THEN __export__(h, value)
                             ELSE [heap |-> h, ret |-> value],
                             self, i, exported, key)

ExportRest(w, self, i, exported, key) ==
    IF IsErr(w.ret) THEN w ELSE ExportLoop(w.heap, self, i + 1, ItemPut(exported, key, w.ret))

__export__(h, self) == ExportLoop(h, self, 1, <<>>)

\* export(dict1), the module's function: the loop over dict1.items()
RECURSIVE export(_, _), ExportWalk(_, _, _), ExportWalkRest(_, _, _, _, _)
ExportWalk(h, dict1, i) ==
    IF i > Len(Body(h, dict1)) THEN [heap |-> h, ret |-> dict1]
    ELSE LET key == Body(h, dict1)[i].key
             value == Body(h, dict1)[i].val
         IN  ExportWalkRest(IF IsObj(h, value) THEN __export__(h, value)
                            ELSE IF IsDict(h, value) THEN export(h, value)
                            ELSE [heap |-> h, ret |-> value],
                            h, dict1, i, IsDict(h, value))

ExportWalkRest(w, h, dict1, i, store) ==
    IF IsErr(w.ret) THEN w
    ELSE ExportWalk(IF store THEN SetItem(w.heap, dict1, Body(h, dict1)[i].key, w.ret).heap
                    ELSE h,
                    dict1, i + 1)

ExportFrom(o) == IF IsErr(o.ret) THEN o ELSE ExportWalk(o.heap, o.ret, 1)

export(h, dict1) ==
    IF IsObj(h, dict1) THEN ExportFrom(__export__(h, dict1))
    ELSE IF IsDict(h, dict1) THEN ExportWalk(h, dict1, 1)
    ELSE [heap |-> h, ret |-> Err("AttributeError")]


\* copy.deepcopy(x, memo): scalars are returned as they are, a list or a
\* plain dict is rebuilt element by element, a Dict is copied by its own
\* __deepcopy__, which does not hand memo on.
RECURSIVE deepcopy(_, _, _), DeepCopyList(_, _, _, _, _), DeepCopyDict(_, _, _, _, _)
DeepCopyList(h, memo, x, y, i) ==
    IF i > Len(Body(h, x)) THEN [heap |-> h, memo |-> memo, ret |-> y]
    ELSE LET e == deepcopy(h, memo, Body(h, x)[i])
         IN  IF IsErr(e.ret) THEN e
             ELSE DeepCopyList([e.heap EXCEPT ![y.v].v = Append(@, e.ret)], e.memo, x, y, i + 1)

DeepCopyDict(h, memo, x, y, i) ==
    IF i > Len(Body(h, x)) THEN [heap |-> h, memo |-> memo, ret |-> y]
    ELSE LET e == deepcopy(h, memo, Body(h, x)[i].val)
         IN  IF IsErr(e.ret) THEN e
             ELSE DeepCopyDict(SetItem(e.heap, y, Body(h, x)[i].key, e.ret).heap,
                               e.memo, x, y, i + 1)

\* Dict.__deepcopy__
__deepcopy__(h, memo, self) ==
    LET r == copy(h, self)
    IN  [heap |-> r.heap, ret |-> r.ret,
         memo |-> IF IsErr(r.ret) THEN memo ELSE ItemPut(memo, IntV(self.v), r.ret)]

deepcopy(h, memo, x) ==
    IF x.k # "ref" THEN [heap |-> h, memo |-> memo, ret |-> x]
    ELSE IF HasKey(memo, IntV(x.v)) THEN [heap |-> h, memo |-> memo, ret |-> ItemGet(memo, IntV(x.v))]
    ELSE IF IsObj(h, x) THEN __deepcopy__(h, memo, x)
    ELSE LET n == New(h, Kind(h, x), <<>>)
         IN  IF IsList(h, x) THEN DeepCopyList(n.heap, ItemPut(memo, IntV(x.v), n.ret), x, n.ret, 1)
             ELSE DeepCopyDict(n.heap, ItemPut(memo, IntV(x.v), n.ret), x, n.ret, 1)

----------------------------------------------------------------------------
(* Merge engine *)

\* union(dict1, dict2): the loop over dict2.items() from the i-th item on;
\* n is the size of dict2 when the loop began.
RECURSIVE union(_, _, _), UnionLoop(_, _, _, _, _)
\* The loop of union with the operands of its recursive call exchanged: the
\* target's sub-mapping is merged into the source's.
UnionLoopSwapped(h, dict1, dict2, i, n) ==
    IF Len(Body(h, dict2)) # n THEN [heap |-> h, ret |-> Err("RuntimeError")]
    ELSE IF i > n THEN [heap |-> h, ret |-> dict1]
    ELSE LET key == Body(h, dict2)[i].key
             value == Body(h, dict2)[i].val
             in == Contains(h, dict1, key)
             deep == in.v /\ IsDict(h, value)
             inner == GetItem(h, dict1, key)
             r == IF deep THEN union(h, value, inner) ELSE [heap |-> h, ret |-> value]
             s == SetItem(r.heap, dict1, key, r.ret)
         IN  IF IsErr(in) THEN [heap |-> h, ret |-> in]
             ELSE IF deep /\ IsErr(inner) THEN [heap |-> h, ret |-> inner]
             ELSE IF IsErr(r.ret) THEN r
             ELSE IF IsErr(s.ret) THEN s
             ELSE UnionLoop(s.heap, dict1, dict2, i + 1, n)

UnionLoop(h, dict1, dict2, i, n) ==
    IF Len(Body(h, dict2)) # n THEN [heap |-> h, ret |-> Err("RuntimeError")]
    ELSE IF i > n THEN [heap |-> h, ret |-> dict1]
    ELSE LET key == Body(h, dict2)[i].key
             value == Body(h, dict2)[i].val
             in == Contains(h, dict1, key)
             deep == in.v /\ IsDict(h, value)
             inner == GetItem(h, dict1, key)
             r == IF deep THEN union(h, inner, value) ELSE [heap |-> h, ret |-> value]
             s == SetItem(r.heap, dict1, key, r.ret)
         IN  IF IsErr(in) THEN [heap |-> h, ret |-> in]
             ELSE IF deep /\ IsErr(inner) THEN [heap |-> h, ret |-> inner]
             ELSE IF IsErr(r.ret) THEN r
             ELSE IF IsErr(s.ret) THEN s
             ELSE UnionLoop(s.heap, dict1, dict2, i + 1, n)

union(h, dict1, dict2) ==
    IF ~IsDict(h, dict2) THEN [heap |-> h, ret |-> Err("AttributeError")]
    ELSE UnionLoop(h, dict1, dict2, 1, Len(Body(h, dict2)))

\* dict1[key] = <the value r has computed>, unless computing it raised
Store(r, dict1, key) ==
    IF IsErr(r.ret) THEN r ELSE SetItem(r.heap, dict1, key, r.ret)

\* The result of copy.deepcopy(value), its memo dropped
DeepCopyValue(d) == [heap |-> d.heap, ret |-> d.ret]

\* _union_copy(dict1, dict2)
RECURSIVE _union_copy(_, _, _), UnionCopyLoop(_, _, _, _, _), UnionCopyRest(_, _, _, _, _)
UnionCopyLoop(h, dict1, dict2, i, n) ==
    IF Len(Body(h, dict2)) # n THEN [heap |-> h, ret |-> Err("RuntimeError")]
    ELSE IF i > n THEN [heap |-> h, ret |-> dict1]
    ELSE LET key == Body(h, dict2)[i].key
             value == Body(h, dict2)[i].val
             in == Contains(h, dict1, key)
             deep == in.v /\ IsDict(h, value)
             inner == GetItem(h, dict1, key)
         IN  IF IsErr(in) THEN [heap |-> h, ret |-> in]
             ELSE IF deep /\ IsErr(inner) THEN [heap |-> h, ret |-> inner]
             ELSE UnionCopyRest(Store(IF deep THEN _union_copy(h, inner, value)
                                      ELSE DeepCopyValue(deepcopy(h, <<>>, value)),
                                      dict1, key),
                                dict1, dict2, i, n)

UnionCopyRest(s, dict1, dict2, i, n) ==
    IF IsErr(s.ret) THEN s ELSE UnionCopyLoop(s.heap, dict1, dict2, i + 1, n)

_union_copy(h, dict1, dict2) ==
    IF ~IsDict(h, dict2) THEN [heap |-> h, ret |-> Err("AttributeError")]
    ELSE UnionCopyLoop(h, dict1, dict2, 1, Len(Body(h, dict2)))

UnionCopyInto(d, dict2) ==
    IF IsErr(d.ret) THEN d ELSE _union_copy(d.heap, d.ret, dict2)

union_copy(h, dict1, dict2) == UnionCopyInto(DeepCopyValue(deepcopy(h, <<>>, dict1)), dict2)


\* elem in val1, for a list val1
InList(h, val1, elem) == \E i \in 1..Len(Body(h, val1)) : PyEq(h, Body(h, val1)[i], elem)

\* union_setadd(dict1, dict2), with its two loops over the list val2
RECURSIVE union_setadd(_, _, _), SetaddLoop(_, _, _, _, _), SetaddDicts(_, _, _, _, _)
RECURSIVE SetaddElems(_, _, _, _)
\* for xelem in range(0, len(val2)), from xelem on (n is len(val2) at the start)
SetaddDicts(h, val1, val2, xelem, n) ==
    IF xelem >= n THEN [heap |-> h, ret |-> None]
    ELSE IF xelem < Len(Body(h, val1))
    THEN LET e2 == GetItem(h, val2, IntV(xelem))
             r == union_setadd(h, Body(h, val1)[xelem + 1], e2)
         IN  IF IsErr(e2) THEN [heap |-> h, ret |-> e2]
             ELSE IF IsErr(r.ret) THEN r
             ELSE SetaddDicts(SetItem(r.heap, val1, IntV(xelem), r.ret).heap,
                              val1, val2, xelem + 1, n)
    ELSE LET e2 == GetItem(h, val2, IntV(xelem))
         IN  IF IsErr(e2) THEN [heap |-> h, ret |-> e2]
             ELSE SetaddDicts([h EXCEPT ![val1.v].v = Append(@, e2)], val1, val2, xelem + 1, n)

\* for elem in val2, from the i-th element on
SetaddElems(h, val1, val2, i) ==
    IF i > Len(Body(h, val2)) THEN [heap |-> h, ret |-> None]
    ELSE LET elem == Body(h, val2)[i]
         IN  SetaddElems(IF InList(h, val1, elem) THEN h
                         ELSE [h EXCEPT ![val1.v].v = Append(@, elem)],
                         val1, val2, i + 1)

SetaddLoop(h, dict1, dict2, i, n) ==
    IF Len(Body(h, dict2)) # n THEN [heap |-> h, ret |-> Err("RuntimeError")]
    ELSE IF i > n THEN [heap |-> h, ret |-> dict1]
    ELSE LET key2 == Body(h, dict2)[i].key
             val2 == Body(h, dict2)[i].val
             in == Contains(h, dict1, key2)
             val1 == GetItem(h, dict1, key2)
             r == CASE ~in.v -> [heap |-> h, ret |-> val2]
                    [] in.v /\ IsErr(val1) -> [heap |-> h, ret |-> val1]
                    [] in.v /\ ~IsErr(val1) /\ IsDict(h, val2) -> union_setadd(h, val1, val2)
                    [] in.v /\ ~IsErr(val1) /\ IsList(h, val2) ->
                         IF ~IsList(h, val1) THEN [heap |-> h, ret |-> Err("TypeError")]
                         ELSE IF ~Truthy(h, val2) THEN [heap |-> h, ret |-> None]
                         ELSE LET m == IF IsDict(h, Body(h, val2)[1])
                                       THEN SetaddDicts(h, val1, val2, 0, Len(Body(h, val2)))
                                       ELSE SetaddElems(h, val1, val2, 1)
                              IN  IF IsErr(m.ret) THEN m ELSE [heap |-> m.heap, ret |-> val1]
                    [] OTHER -> [heap |-> h, ret |-> val2]
             skip == in.v /\ ~IsErr(val1) /\ IsList(h, val2) /\ IsList(h, val1)
                     /\ ~Truthy(h, val2)
             s == IF skip THEN [heap |-> h, ret |-> None]
                  ELSE SetItem(r.heap, dict1, key2, r.ret)
         IN  IF IsErr(in) THEN [heap |-> h, ret |-> in]
             ELSE IF IsErr(r.ret) THEN r
             ELSE IF IsErr(s.ret) THEN s
             ELSE SetaddLoop(s.heap, dict1, dict2, i + 1, n)

union_setadd(h, dict1, dict2) ==
    IF ~IsDict(h, dict2) THEN [heap |-> h, ret |-> Err("AttributeError")]
    ELSE SetaddLoop(h, dict1, dict2, 1, Len(Body(h, dict2)))


----------------------------------------------------------------------------
(* Inputs: literals, and the objects they denote *)

\* A literal: a scalar, a list of literals, a dict display {key: literal, ...}
\* in the order written (kind "dict"), or Dict({...}) (kind "Dict").
List(elems) == [k |-> "list", v |-> elems]
Dct(items) == [k |-> "dict", v |-> items]
Wrap(items) == [k |-> "Dict", v |-> items]
Item(key, val) == [key |-> StrV(key), val |-> val]

\* The object a literal evaluates to, built in h.
RECURSIVE Alloc(_, _), AllocList(_, _, _, _), AllocDict(_, _, _, _)
AllocList(h, self, elems, i) ==
    IF i > Len(elems) THEN [heap |-> h, ret |-> self]
    ELSE LET e == Alloc(h, elems[i])
         IN  IF IsErr(e.ret) THEN e
             ELSE AllocList([e.heap EXCEPT ![self.v].v = Append(@, e.ret)], self, elems, i + 1)

AllocDict(h, self, items, i) ==
    IF i > Len(items) THEN [heap |-> h, ret |-> self]
    ELSE LET e == Alloc(h, items[i].val)
         IN  IF IsErr(e.ret) THEN e
             ELSE AllocDict(SetItem(e.heap, self, items[i].key, e.ret).heap, self, items, i + 1)

Alloc(h, lit) ==
    CASE lit.k = "list" -> LET n == New(h, "list", <<>>) IN AllocList(n.heap, n.ret, lit.v, 1)
      [] lit.k = "dict" -> LET n == New(h, "dict", <<>>) IN AllocDict(n.heap, n.ret, lit.v, 1)
      [] lit.k = "Dict" -> LET n == New(h, "dict", <<>>)
                               d == AllocDict(n.heap, n.ret, lit.v, 1)
                           IN  IF IsErr(d.ret) THEN d ELSE DictInit(d.heap, d.ret)
      [] OTHER -> [heap |-> h, ret |-> lit]

\* The sequences over S of length 0..n
RECURSIVE SeqsUpTo(_, _)
SeqsUpTo(S, n) ==
    IF n = 0 THEN {<<>>}
    ELSE LET shorter == SeqsUpTo(S, n - 1)
         IN  shorter \cup {Append(q, x) : q \in {t \in shorter : Len(t) = n - 1}, x \in S}

----------------------------------------------------------------------------
(* Path resolver: the runs *)

\* Bounds of the path resolver's inputs.
MaxInt == 1
MaxLen == 2
MaxIdx == 1

PathLeaves == {IntV(i) : i \in 0..MaxInt} \cup {StrV(<<"x", "y">>), BoolV(FALSE), BoolV(TRUE)}
PathRecords == {Dct(<<>>), Dct(<<Item(<<"d">>, IntV(1))>>),
                Dct(<<Item(<<"c">>, IntV(1)), Item(<<"d">>, IntV(1))>>)}
PathLists == {List(q) : q \in SeqsUpTo(PathLeaves \cup PathRecords, MaxLen)}
PathStructs ==
    {Dct(<<>>)} \cup {Dct(<<Item(<<"a">>, m)>>) : m \in PathLeaves \cup PathRecords \cup PathLists}

\* name, name[i], name.name2 and name[i].name2; and an index group before
\* a final newline, after an inner newline, and in another script's digits
Bracket(i) == <<"[", Digits[i + 1], "]">>
Paths ==
    LET first == {<<"a">>, <<"b">>}
        second == {<<"c">>, <<"d">>}
        heads == first \cup {n \o Bracket(i) : n \in first, i \in 0..MaxIdx}
    IN  heads \cup {h \o <<".">> \o n : h \in heads, n \in second}
          \cup {<<"a">> \o Bracket(0) \o <<"\n">>,
                <<"b", "\n", "a">> \o Bracket(0),
                <<"a", "[", UnicodeDigits[1][2], "]">>}

\* The value written by dug, the default given to dig_get.
PathValues == {IntV(9), Dct(<<Item(<<"d">>, IntV(9))>>)}

PathInit ==
    \E s \in PathStructs, p \in Paths, v \in PathValues :
        LET o == Alloc(<<>>, s)
            w == Alloc(o.heap, v)
        IN  /\ heap = w.heap
            /\ old = w.heap
            /\ a = o.ret
            /\ b = w.ret
            /\ c = None
            /\ args = [path |-> p]
            /\ ret = None
            /\ pc = "start"

\* dig(a, path)
Dig ==
    /\ pc = "start"
    /\ ret' = dig(heap, a, args.path)
    /\ pc' = "dig"
    /\ old' = heap
    /\ UNCHANGED <<heap, a, b, c, args>>

\* dig_get(a, path, b)
DigGet ==
    /\ pc = "start"
    /\ ret' = dig_get(heap, a, args.path, b)
    /\ pc' = "dig_get"
    /\ old' = heap
    /\ UNCHANGED <<heap, a, b, c, args>>

\* dug(a, path, b)
Dug ==
    /\ pc = "start"
    /\ LET r == dug(heap, a, args.path, b)
       IN  heap' = r.heap /\ ret' = r.ret
    /\ pc' = "dug"
    /\ old' = heap
    /\ UNCHANGED <<a, b, c, args>>

PathNext == Dig \/ DigGet \/ Dug

PathSpec == PathInit /\ [][PathNext]_vars


\* The steps a path is resolved by: each segment, spliced as the recursion
\* of _dig and _dug splices it.
RECURSIVE Steps(_)
Steps(key0) ==
    LET key == _splice_index(key0)
    IN  IF Len(key) = 1 THEN key ELSE <<key[1]>> \o Steps(Tail(key))

PathSteps(path) == Steps(SplitPath(path))

\* obj[s1][s2]...[sn]
RECURSIVE Walk(_, _, _)
Walk(h, obj, steps) ==
    IF steps = <<>> THEN obj
    ELSE LET e == GetItem(h, obj, steps[1])
         IN  IF IsErr(e) THEN e ELSE Walk(h, e, Tail(steps))

\* The container the last step of path indexes.
Parent(h, obj, path) ==
    LET st == PathSteps(path) IN Walk(h, obj, SubSeq(st, 1, Len(st) - 1))

IsPrefix(s, t) == Len(s) <= Len(t) /\ SubSeq(t, 1, Len(s)) = s

\* C1: dig_get never raises; it returns the value of the strict lookup dig
\* when that succeeds, or else the default it was given.
DigGetNeverRaises ==
    pc = "dig_get" =>
        /\ ~IsErr(ret)
        /\ \/ ret = b
           \/ LET strict == dig(heap, a, args.path) IN ~IsErr(strict) /\ ret = strict

\* C6 as claimed: whenever dig(s, p) succeeds, dug(s, p, v) returns True and
\* dig(s, p) then returns v.
DugThenDig ==
    (pc = "dug" /\ ~IsErr(dig(old, a, args.path))) =>
        (ret = BoolV(TRUE) /\ dig(heap, a, args.path) = b)

\* C6 as amended: whenever dig(s, p) succeeds and the last step of p indexes
\* a mapping or a list (not a character of a string), dug(s, p, v) returns
\* True and dig(s, p) then returns v.
DugThenDigInContainer ==
    (pc = "dug" /\ ~IsErr(dig(old, a, args.path)) /\ Parent(old, a, args.path).k = "ref") =>
        (ret = BoolV(TRUE) /\ dig(heap, a, args.path) = b)

\* A dug through an index step to an entry dig could read, which changed it.
DugThenDigWitness ==
    /\ pc = "dug"
    /\ ~IsErr(dig(old, a, args.path))
    /\ Len(PathSteps(args.path)) = 3
    /\ PathSteps(args.path)[2].k = "int"
    /\ IsDict(old, Parent(old, a, args.path))
    /\ ret = BoolV(TRUE)
    /\ dig(old, a, args.path) # b
    /\ dig(heap, a, args.path) = b

\* C10: a dug that returns True keeps every entry that exists on the way to
\* the addressed one (it is descended into, not replaced), and leaves every
\* entry off the path with the value it had.
DugChangesOnlyPath ==
    (pc = "dug" /\ ret = BoolV(TRUE)) =>
        LET st == PathSteps(args.path)
        IN  /\ \A n \in 1..(Len(st) - 1) :
                  LET before == Walk(old, a, SubSeq(st, 1, n))
                  IN  ~IsErr(before) => Walk(heap, a, SubSeq(st, 1, n)) = before
            /\ \A q \in Paths :
                  LET sq == PathSteps(q)
                      before == dig(old, a, q)
                  IN  (~IsPrefix(sq, st) /\ ~IsPrefix(st, sq) /\ ~IsErr(before)) =>
                          Content(heap, dig(heap, a, q)) = Content(old, before)


----------------------------------------------------------------------------
(* In-place writes by the caller *)

\* The addresses of the containers reachable from x.
RECURSIVE Reach(_, _)
Reach(h, x) ==
    IF x.k # "ref" THEN {}
    ELSE {x.v} \cup UNION {Reach(h, IF h[x.v].k = "list" THEN h[x.v].v[i] ELSE h[x.v].v[i].val) :
                             i \in 1..Len(h[x.v].v)}

\* The value a caller's write stores.
Written == IntV(7)

\* The heaps one write to the object at addr leads to: an element write or
\* an append for a list; a subscript or attribute write, or the deletion
\* of an entry, for a mapping.
Writes(h, addr) ==
    IF h[addr].k = "list"
    THEN {[h EXCEPT ![addr].v = Append(@, Written)]}
         \cup {[h EXCEPT ![addr].v[i] = Written] : i \in 1..Len(h[addr].v)}
    ELSE {[h EXCEPT ![addr].v = ItemPut(@, key, Written)] :
            key \in {h[addr].v[i].key : i \in 1..Len(h[addr].v)} \cup {StrV(<<"n">>)}}
         \cup {[h EXCEPT ![addr].v = ItemDel(@, h[addr].v[i].key)] : i \in 1..Len(h[addr].v)}

----------------------------------------------------------------------------
(* Attribute-view wrapper: the runs *)

\* The most keys of a mapping handed to the constructor.
MaxKeys == 2

WrapKeys == {<<"a", " ", "b">>, <<"a", "_", "b">>, <<"a", "-", "b">>, <<"l">>,
             <<"c", "o", "p", "y">>, <<"s", "e", "l", "f">>, Prefix \o <<"x">>}
WrapValues == {IntV(1), IntV(2), List(<<IntV(1)>>), Dct(<<Item(<<"u", " ", "v">>, IntV(1))>>),
               Dct(<<Item(<<"s", "e", "l", "f">>, IntV(1))>>)}

\* The mappings of at most MaxKeys distinct keys, in every order of writing.
WrapMaps ==
    {Dct(q) : q \in {t \in SeqsUpTo({Item(key, val) : key \in WrapKeys, val \in WrapValues},
                                     MaxKeys) :
                       \A i, j \in 1..Len(t) : i # j => t[i].key # t[j].key}}

\* Arguments of the constructor that are no mappings.
WrapOthers == {List(<<>>), IntV(5)}

WrapInit ==
    \E m \in WrapMaps \cup WrapOthers :
        LET o == Alloc(<<>>, m)
        IN  /\ heap = o.heap
            /\ old = o.heap
            /\ a = o.ret
            /\ b = None
            /\ c = None
            /\ args = [target |-> None]
            /\ ret = None
            /\ pc = "start"

\* b = Dict(a)
Construct ==
    /\ pc = "start"
    /\ LET r == DictInit(heap, a)
       IN  /\ heap' = r.heap
           /\ ret' = r.ret
           /\ b' = IF IsErr(r.ret) THEN None ELSE r.ret
           /\ pc' = IF IsErr(r.ret) THEN "rejected" ELSE "Dict"
    /\ old' = heap
    /\ UNCHANGED <<a, c, args>>

\* original(b)
Original ==
    /\ pc = "Dict"
    /\ LET r == original(heap, b) IN heap' = r.heap /\ ret' = r.ret
    /\ pc' = "original"
    /\ old' = heap
    /\ UNCHANGED <<a, b, c, args>>

\* export(b)
Export ==
    /\ pc = "Dict"
    /\ LET r == export(heap, b) IN heap' = r.heap /\ ret' = r.ret
    /\ pc' = "export"
    /\ old' = heap
    /\ UNCHANGED <<a, b, c, args>>

\* c = b.copy()
Copy ==
    /\ pc = "Dict"
    /\ LET r == copy(heap, b) IN heap' = r.heap /\ ret' = r.ret /\ c' = r.ret
    /\ pc' = "copy"
    /\ old' = heap
    /\ UNCHANGED <<a, b, args>>

\* c = copy.deepcopy(b)
DeepCopy ==
    /\ pc = "Dict"
    /\ LET r == deepcopy(heap, <<>>, b) IN heap' = r.heap /\ ret' = r.ret /\ c' = r.ret
    /\ pc' = "deepcopy"
    /\ old' = heap
    /\ UNCHANGED <<a, b, args>>

\* One write into the copy c, or into the wrapper b it was taken from, at
\* any depth.
WriteAfterCopy ==
    /\ pc \in {"copy", "deepcopy"}
    /\ ~IsErr(ret)
    /\ \E target \in {b, c} :
         \E addr \in Reach(heap, target) :
           \E h \in Writes(heap, addr) :
             /\ heap' = h
             /\ args' = [target |-> target]
    /\ pc' = "written"
    /\ old' = heap
    /\ UNCHANGED <<a, b, c, ret>>

WrapNext == Construct \/ Original \/ Export \/ Copy \/ DeepCopy \/ WriteAfterCopy

WrapSpec == WrapInit /\ [][WrapNext]_vars

\* The original-keyed projection of wrapper w in heap h, as content.
Projection(h, w) == LET r == original(h, w) IN Content(r.heap, r.ret)

\* C2: original(Dict(m)) equals m, for every mapping m the constructor accepts.
OriginalRoundTrip ==
    pc = "original" => (~IsErr(ret) /\ Content(heap, ret) = Content(heap, a))

\* C4: a copy (copy() or deepcopy) has the wrapper's original-keyed content,
\* and a write into either of the two leaves the other's projection as it
\* was before the write.
CopyIsIndependent ==
    /\ (pc \in {"copy", "deepcopy"} /\ ~IsErr(ret)) => Projection(heap, c) = Projection(heap, b)
    /\ (pc = "written" /\ args.target = c) => Projection(heap, b) = Projection(old, b)
    /\ (pc = "written" /\ args.target = b) => Projection(heap, c) = Projection(old, c)

\* The reverse-mapping entries of the wrapper: the entries under a key that
\* begins with the reserved prefix.
ReverseEntries(h, w) ==
    {it \in {Body(h, w)[i] : i \in 1..Len(Body(h, w))} : it.key.k = "str" /\ HasPrefix(it.key.v)}

\* C8: right after construction from m, every key of m that is not
\* identifier-safe has exactly one reverse-mapping entry, the one under the
\* prefix and its sanitised form, and no identifier-safe key of m has a
\* reverse-mapping entry under the prefix and itself.
ReverseMappingInvariant ==
    pc = "Dict" =>
        \A i \in 1..Len(Body(heap, a)) :
            LET key == Body(heap, a)[i].key.v
            IN  IF Sanitize(key) # key
                THEN {it \in ReverseEntries(heap, b) : it.val = StrV(key)}
                         = {[key |-> StrV(Prefix \o Sanitize(key)), val |-> StrV(key)]}
                ELSE \A it \in ReverseEntries(heap, b) : it.key # StrV(Prefix \o key)


----------------------------------------------------------------------------
(* Merge engine: the runs *)

\* The integer leaves of the merged structures are 1..MaxVal.
MaxVal == 2

MergeKeys == {<<"k">>, <<"p">>}
MergeLeaves == {IntV(i) : i \in 1..MaxVal}
MergeLists == {List(<<IntV(1)>>), List(<<BoolV(TRUE)>>), List(<<Dct(<<Item(<<"k">>, IntV(1))>>)>>)}
\* The mappings with keys among MergeKeys, in one order, and values in S
MergeMaps(S) ==
    {Dct(<<>>)} \cup {Dct(<<Item(key, x)>>) : key \in MergeKeys, x \in S}
        \cup {Dct(<<Item(<<"k">>, x), Item(<<"p">>, y)>>) : x, y \in S}
MergeValues == MergeLeaves \cup MergeLists \cup MergeMaps(MergeLeaves)
\* Mappings keyed by integers, as values of a source: one written from the
\* end of a list, and one whose keys 0 and -2 index one slot of a list of
\* two elements.
MergeOddValues ==
    {Dct(<<[key |-> IntV(0 - 1), val |-> IntV(2)]>>),
     Dct(<<[key |-> IntV(0), val |-> Dct(<<>>)],
           [key |-> IntV(0 - 2), val |-> Dct(<<Item(<<"k">>, IntV(1))>>)]>>)}
\* A list of two elements holding the integer -2, as a value of a target.
MergeOddLists == {List(<<IntV(5), IntV(0 - 2)>>)}
\* Mappings keyed by an integer and by the bool equal to it.
MergeOddKeys == {Dct(<<[key |-> IntV(1), val |-> IntV(1)]>>),
                 Dct(<<[key |-> BoolV(TRUE), val |-> IntV(2)]>>)}
\* A key that is no identifier, and the identifier Dict.__init__ makes of it.
MergeAliasKeys == {<<"a", " ", "b">>, <<"a", "_", "b">>}
\* The mappings a wrapper holds under both keys of MergeAliasKeys when it
\* is built from the first.
MergeAliased ==
    {Dct(<<Item(<<"a", " ", "b">>, x)>>) :
        x \in {Dct(<<>>), Dct(<<Item(<<"k">>, IntV(1))>>), Dct(<<Item(<<"k">>, Dct(<<>>))>>)}}
\* The mappings of depth three with one or both keys of MergeAliasKeys at
\* the top, in either order.
MergeDeep ==
    LET inner == {Dct(<<>>), Dct(<<Item(<<"p">>, IntV(1))>>)}
        under(key, x) == Item(key, Dct(<<Item(<<"k">>, x)>>))
    IN  {Dct(<<under(key, x)>>) : key \in MergeAliasKeys, x \in inner}
            \cup UNION {{Dct(<<under(k1, x), under(k2, y)>>) :
                            k2 \in MergeAliasKeys \ {k1}, x \in inner, y \in inner} :
                          k1 \in MergeAliasKeys}
\* The mappings with string keys at every depth.
MergeWrappable == {Dct(<<>>)} \cup {Dct(<<Item(<<"k">>, x)>>) : x \in MergeValues}
\* The wrappers: of a mapping with string keys at every depth, and of one
\* with a key that is no identifier.
MergeWrappers == {Wrap(m.v) : m \in MergeWrappable \cup MergeAliased}
\* A source: a plain mapping, or a wrapper that holds one mapping under
\* two keys.
MergeSources ==
    MergeWrappable \cup {Dct(<<Item(<<"k">>, x)>>) : x \in MergeOddValues} \cup MergeOddKeys
        \cup MergeDeep \cup {Wrap(m.v) : m \in MergeAliased}
\* A source of the call that follows union(a, b): a source that holds a
\* list or a mapping, or nothing.
MergeNextSources ==
    {Dct(<<>>)} \cup {Dct(<<Item(<<"k">>, x)>>) : x \in MergeLists \cup MergeMaps({IntV(1)}) \cup MergeOddValues}
        \cup MergeDeep \cup {Wrap(m.v) : m \in MergeAliased}
\* A target: a source, a wrapper, or a plain mapping holding a list of
\* MergeOddLists.
MergeTargets ==
    MergeSources \cup MergeWrappers \cup {Dct(<<Item(<<"k">>, x)>>) : x \in MergeOddLists}

MergeInit ==
    \E x \in MergeTargets, y \in MergeSources, z \in MergeNextSources :
        LET o == Alloc(<<>>, x)
            p == Alloc(o.heap, y)
            q == Alloc(p.heap, z)
        IN  /\ heap = q.heap
            /\ old = q.heap
            /\ a = o.ret
            /\ b = p.ret
            /\ c = q.ret
            /\ args = [init |-> q.heap]
            /\ ret = None
            /\ pc = "start"

\* union(a, b)
Union ==
    /\ pc = "start"
    /\ LET r == union(heap, a, b) IN heap' = r.heap /\ ret' = r.ret
    /\ pc' = "union"
    /\ old' = heap
    /\ UNCHANGED <<a, b, c, args>>

\* union(a, b) once more, after union(a, b)
UnionAgain ==
    /\ pc = "union"
    /\ ~IsErr(ret)
    /\ LET r == union(heap, a, b) IN heap' = r.heap /\ ret' = r.ret
    /\ pc' = "union again"
    /\ old' = heap
    /\ UNCHANGED <<a, b, c, args>>

\* union(a, c), after union(a, b)
UnionNext ==
    /\ pc = "union"
    /\ ~IsErr(ret)
    /\ LET r == union(heap, a, c) IN heap' = r.heap /\ ret' = r.ret
    /\ pc' = "union next"
    /\ old' = heap
    /\ UNCHANGED <<a, b, c, args>>

\* union_setadd(a, b)
UnionSetadd ==
    /\ pc = "start"
    /\ LET r == union_setadd(heap, a, b) IN heap' = r.heap /\ ret' = r.ret
    /\ pc' = "union_setadd"
    /\ old' = heap
    /\ UNCHANGED <<a, b, c, args>>

\* r = union_copy(a, b)
UnionCopy ==
    /\ pc = "start"
    /\ LET r == union_copy(heap, a, b) IN heap' = r.heap /\ ret' = r.ret
    /\ pc' = "union_copy"
    /\ old' = heap
    /\ UNCHANGED <<a, b, c, args>>

\* One write into the result of union_copy, at any depth.
WriteResult ==
    /\ pc = "union_copy"
    /\ ~IsErr(ret)
    /\ \E addr \in Reach(heap, ret) : \E h \in Writes(heap, addr) : heap' = h
    /\ pc' = "written"
    /\ old' = heap
    /\ UNCHANGED <<a, b, c, args, ret>>

MergeNext == Union \/ UnionAgain \/ UnionNext \/ UnionSetadd \/ UnionCopy \/ WriteResult

MergeSpec == MergeInit /\ [][MergeNext]_vars

\* The keys target and source both hold, where the source's value is a
\* mapping and the target's is not.
ClashKeys(h, dict1, dict2) ==
    {i \in 1..Len(Body(h, dict2)) :
        LET key == Body(h, dict2)[i].key
        IN  /\ IsDict(h, Body(h, dict2)[i].val)
            /\ Contains(h, dict1, key).v
            /\ ~IsDict(h, GetItem(h, dict1, key))}

\* x holds mappings and scalars only, at every depth.
MappingOnly(h, x) == \A addr \in Reach(h, x) : h[addr].k # "list"

\* C5: in each of the three merges, a key that both operands hold, with a
\* mapping in the source and a scalar or a sequence in the target, does not
\* make the merge fail: the result holds under that key a mapping with the
\* content of the source's sub-mapping.
MergeReplacesNonMapping ==
    pc \in {"union", "union_setadd", "union_copy"} =>
        \A i \in ClashKeys(args.init, a, b) :
            /\ ~IsErr(ret)
            /\ LET got == GetItem(heap, ret, Body(args.init, b)[i].key)
               IN  /\ IsDict(heap, got)
                   /\ Content(heap, got) = Content(args.init, Body(args.init, b)[i].val)

\* C3: union_copy(a, b) leaves the content of a and of b as it was, its
\* result shares no container with a or b, and a later write into the
\* result, at any depth, leaves a and b as they were.
UnionCopyIsIndependent ==
    /\ pc \in {"union_copy", "written"} =>
          /\ Content(heap, a) = Content(args.init, a)
          /\ Content(heap, b) = Content(args.init, b)
    /\ (pc = "union_copy" /\ ~IsErr(ret)) =>
          Reach(heap, ret) \cap (Reach(heap, a) \cup Reach(heap, b)) = {}

\* C7: for operands holding mappings and scalars only, union(a, b) completes,
\* and a second union(a, b) completes and leaves a with the content the first
\* one gave it.
UnionIsIdempotent ==
    (MappingOnly(args.init, a) /\ MappingOnly(args.init, b)) =>
        /\ pc = "union" => ~IsErr(ret)
        /\ pc = "union again" => (~IsErr(ret) /\ Content(heap, a) = Content(old, a))

\* C9 as claimed: after union(a, b) and then union(a, c), b has the content
\* it had before the first call and c the content it had before the second.
UnionKeepsSources ==
    pc = "union next" =>
        /\ Content(heap, b) = Content(args.init, b)
        /\ Content(heap, c) = Content(old, c)

\* The entries, as <<address, position>>, of the containers reachable from
\* x that hold the container at addr.
Holders(h, x, addr) ==
    {e \in UNION {{<<p, i>> : i \in 1..Len(h[p].v)} : p \in Reach(h, x)} :
        (IF h[e[1]].k = "list" THEN h[e[1]].v[e[2]] ELSE h[e[1]].v[e[2]].val) = Ref(addr)}

\* x holds no container twice: every container reachable from x is held by
\* one entry only, and x itself by none.
HoldsOnce(h, x) ==
    \A addr \in Reach(h, x) :
        Cardinality(Holders(h, x, addr)) <= (IF addr = x.v THEN 0 ELSE 1)

\* Every key of every mapping reachable from x is a string.
StringKeys(h, x) ==
    \A addr \in Reach(h, x) :
        h[addr].k # "list" => \A i \in 1..Len(h[addr].v) : h[addr].v[i].key.k = "str"

\* What C9 as amended asks of a call union(target, source), in the heap h
\* the call starts from.
KeepsSourceWhen(h, target, source) ==
    /\ HoldsOnce(h, target)
    /\ StringKeys(h, source)
    /\ Reach(h, target) \cap Reach(h, source) = {}

\* C9 as amended: a call of union whose target holds no container twice,
\* whose source has string keys at every depth, and whose operands share no
\* container, leaves the source with the content it had before that call:
\* union(a, b) leaves b, and the union(a, c) that follows leaves c.
UnionKeepsItsSource ==
    /\ (pc = "union" /\ KeepsSourceWhen(old, a, b)) => Content(heap, b) = Content(old, b)
    /\ (pc = "union next" /\ KeepsSourceWhen(old, a, c)) => Content(heap, c) = Content(old, c)

\* A second union that completed and merged a sub-mapping of c into a, which
\* held no container twice and already held a sub-mapping taken from b.
UnionKeepsItsSourceWitness ==
    /\ pc = "union next"
    /\ ~IsErr(ret)
    /\ KeepsSourceWhen(old, a, c)
    /\ \E i \in 1..Len(Body(old, c)) :
          /\ IsDict(old, Body(old, c)[i].val)
          /\ Body(old, c)[i].val.v \notin Reach(heap, a)
          /\ Len(Body(old, Body(old, c)[i].val)) > 0
          /\ GetItem(old, a, Body(old, c)[i].key) \in {Body(old, b)[j].val : j \in 1..Len(Body(old, b))}
    /\ Content(heap, a) # Content(old, a)
    /\ Content(heap, c) = Content(old, c)

====
